---- MODULE Spec2Model ----
(***************************************************************************)
(* AppInsightsCore (src/JavaScriptSDK/AppInsightsCore.ts): pipeline        *)
(* assembly (initialize), dispatch (track), the channel controller's      *)
(* fan-out and the diagnostic-log pump (pollInternalLogs).  Extension      *)
(* objects, the configuration object and telemetry items are the           *)
(* application's; the model draws them from small pools.                   *)
(***************************************************************************)
EXTENDS Integers, Sequences, FiniteSets, TLC

\* ---------------------------------------------------------------- values
Undef == "undefined"
Null == "null"
NoNext == "none"
Now == "now"

\* ------------------------------------------------------------ the bounds
MaxExts == 2
MaxQueues == 2
MaxQueueLen == 2
MaxDepth == 8
MaxMessages == 3
MaxTimers == 1
MaxConversions == 2

\* ------------------------------------------------- the program constants
ChannelControllerPriority == 200

\* ------------------------------------------------------ extension objects
\* The channel controller, by its identifier.
Controller == "ChannelControllerPlugin"

\* Extensions without processTelemetry (IPlugin only).
PlainExts == {"plainA", "noInit"}
\* Extensions with processTelemetry, setNextPlugin and a numeric priority.
ProcessingExts == {"p0a", "p0b", "p5", "q5", "c300", "c400"}
\* Those the application can also put in config.channels.
ChannelExts == {"c300", "c400"}
NullExt == "nullExt"

AllExts == PlainExts \cup ProcessingExts \cup {Controller}

HasInitialize(e) == e \notin {"noInit", NullExt}

HasProcessTelemetry(e) == e \in ProcessingExts \cup {Controller}

HasPriority(e) == e \in ProcessingExts \cup {Controller}

Priority(e) ==
    CASE e \in {"p0a", "p0b"} -> 0
      [] e \in {"p5", "q5"} -> 5
      [] e = Controller -> ChannelControllerPriority
      [] e = "c300" -> 300
      [] e = "c400" -> 400

\* ------------------------------------------------------------- sequences
RECURSIVE SeqsUpTo(_, _)
SeqsUpTo(S, n) ==
    IF n = 0 THEN {<<>>}
    ELSE LET shorter == SeqsUpTo(S, n - 1)
         IN  shorter \cup {Append(s, x) : s \in shorter, x \in S}

Range(s) == {s[i] : i \in DOMAIN s}

NoRepeat(s) == \A i, j \in DOMAIN s : i # j => s[i] # s[j]

\* The priorities compared the other way round.
CompareExtensionsDescending(a, b) ==
    IF HasProcessTelemetry(a) /\ HasProcessTelemetry(b) THEN Priority(b) - Priority(a)
    ELSE IF HasProcessTelemetry(a) /\ ~HasProcessTelemetry(b) THEN 1
    ELSE IF ~HasProcessTelemetry(a) /\ HasProcessTelemetry(b) THEN -1
    ELSE 0

\* The comparator of AppInsightsCore.initialize; no return value is 0.
CompareExtensions(a, b) ==
    IF HasProcessTelemetry(a) /\ HasProcessTelemetry(b) THEN Priority(a) - Priority(b)
    ELSE IF HasProcessTelemetry(a) /\ ~HasProcessTelemetry(b) THEN 1
    ELSE IF ~HasProcessTelemetry(a) /\ HasProcessTelemetry(b) THEN -1
    ELSE 0

\* The comparator of ChannelController.initialize, both branches.
CompareChannels(a, b) == Priority(a) - Priority(b)

Compare(by, a, b) ==
    IF by = "extensions" THEN CompareExtensions(a, b) ELSE CompareChannels(a, b)

\* Array.prototype.sort with the comparator named by `by`: a stable insertion
\* sort (what the engines do for arrays this short).
RECURSIVE InsertSorted(_, _, _)
InsertSorted(by, sorted, x) ==
    IF sorted = <<>> THEN <<x>>
    ELSE LET last == sorted[Len(sorted)]
         IN  IF Compare(by, last, x) > 0
             THEN Append(InsertSorted(by, SubSeq(sorted, 1, Len(sorted) - 1), x), last)
             ELSE Append(sorted, x)

RECURSIVE SortBy(_, _)
SortBy(by, s) ==
    IF s = <<>> THEN <<>>
    ELSE InsertSorted(by, SortBy(by, SubSeq(s, 1, Len(s) - 1)), s[Len(s)])

\* ------------------------------------------------------------ the state
VARIABLES
    isInitialized,        \* AppInsightsCore._isInitialized
    configSet,            \* this.config has been assigned (it aliases cfgObj)
    notificationManager,  \* this._notificationManager has been constructed
    cfgObj,               \* the application's configuration object
    extensions,           \* AppInsightsCore._extensions
    channelQueue,         \* ChannelController.channelQueue
    channelQueueSet,      \* channelQueue has been assigned (it is undefined before)
    nextPlugin,           \* per extension object: the last argument of setNextPlugin
    appExts,              \* the extension array the application passes to initialize
    logger,               \* this.logger has been constructed
    loggerQueue,          \* this.logger.queue: the pending messages, by number
    timers,               \* the intervals pollInternalLogs has installed
    logged,               \* how many messages have been logged so far
    passed,               \* per message: how many times the pump passed it to track
    removed,              \* the messages the pump has removed from a queue
    initErr,              \* what the last initialize call raised ("never" before any)
    configArg,            \* the config argument of that initialize call
    converted,            \* the messages that pump tick passed to track, in order
    op,                   \* the call that has just ended, "none" once its caller went on
    err,                  \* the error that call raised, or "none"
    trace,                \* the calls that call made on its collaborators, in order
    itemArg,              \* the item given to that track call, as passed
    item                  \* the same item object when the call ended

vars == <<isInitialized, configSet, notificationManager, cfgObj, extensions,
          channelQueue, channelQueueSet, nextPlugin, appExts, logger, loggerQueue,
          timers, logged, passed, removed, initErr, configArg, converted, op, err,
          trace, itemArg, item>>

Event(ev, a, b) == [ev |-> ev, a |-> a, b |-> b]

\* CoreUtils.isNullOrUndefined
IsNullOrUndefined(v) == v \in {Undef, Null}

\* JavaScript truthiness of the strings and objects used here.
Truthy(v) == v \notin {Undef, Null, ""}

\* --------------------------------------------- ChannelController.initialize
\* setNextPlugin calls a[k].setNextPlugin(a[k+1]) for k = 1..n, applied in order.
RECURSIVE ApplyLinks(_, _, _, _)
ApplyLinks(next, a, k, n) ==
    IF k > n THEN next
    ELSE ApplyLinks([next EXCEPT ![a[k]] = a[k + 1]], a, k + 1, n)

LinkEvents(a, n) == [k \in 1..n |-> Event("setNextPlugin", a[k], a[k + 1])]

InitEvents(a) == [k \in 1..Len(a) |-> Event("initialize", a[k], "")]

\* for (let i = 1; i < queue.length; i++) queue[i - 1].setNextPlugin(queue[i])
ExplicitLinkCount(queue) == IF Len(queue) = 0 THEN 0 ELSE Len(queue) - 1

\* for (let i = 1; i < arr.length - 1; i++) arr[i - 1].setNextPlugin(arr[i])
ImplicitLinkCount(arr) == IF Len(arr) < 2 THEN 0 ELSE Len(arr) - 2

\* config.channels.forEach: acc is what the queues before index i have built.
RECURSIVE BuildQueues(_, _, _)
BuildQueues(channels, i, acc) ==
    IF i > Len(channels) THEN acc
    ELSE LET queue == channels[i]
         IN  IF Len(queue) > 0
             THEN LET sorted == SortBy("channels", queue)
                      n == ExplicitLinkCount(sorted)
                  IN  BuildQueues(channels, i + 1,
                        [queues |-> Append(acc.queues, sorted),
                         next |-> ApplyLinks(acc.next, sorted, 1, n),
                         trace |-> acc.trace \o InitEvents(sorted) \o LinkEvents(sorted, n),
                         channels |-> [acc.channels EXCEPT ![i] = sorted]])
             ELSE BuildQueues(channels, i + 1, acc)

\* The else branch: one queue of the extensions above the controller's priority.
ImplicitQueue(config, exts, next) ==
    LET arr == SelectSeq(exts, LAMBDA e : HasPriority(e) /\ Priority(e) > ChannelControllerPriority)
        sorted == SortBy("channels", arr)
        n == ImplicitLinkCount(sorted)
    IN  IF Len(arr) > 0
        THEN [queues |-> <<sorted>>,
              next |-> ApplyLinks(next, sorted, 1, n),
              trace |-> InitEvents(sorted) \o LinkEvents(sorted, n),
              channels |-> config.channels]
        ELSE [queues |-> <<>>, next |-> next, trace |-> <<>>, channels |-> config.channels]

\* Every declared queue retained, the empty ones too.
ControllerInitializeKeepEmpty(config, exts, next) ==
    IF config.hasChannels
    THEN [queues |-> config.channels, next |-> next, trace |-> <<>>,
          channels |-> config.channels]
    ELSE ImplicitQueue(config, exts, next)

\* config.hasChannels: config.channels is an array (truthy, even when empty).
ControllerInitialize(config, exts, next) ==
    IF config.hasChannels
    THEN BuildQueues(config.channels, 1,
           [queues |-> <<>>, next |-> next, trace |-> <<>>, channels |-> config.channels])
    ELSE ImplicitQueue(config, exts, next)

\* ------------------------------------------------ AppInsightsCore.initialize
\* The Core and the objects it mutates, as one record.
Core ==
    [isInitialized |-> isInitialized, configSet |-> configSet,
     notificationManager |-> notificationManager, cfgObj |-> cfgObj,
     extensions |-> extensions, channelQueue |-> channelQueue,
     channelQueueSet |-> channelQueueSet, nextPlugin |-> nextPlugin,
     logger |-> logger, loggerQueue |-> loggerQueue]

Outcome(core, error, events) == [core |-> core, err |-> error, trace |-> events]

\* extensions.forEach(extension => isNullOrUndefined(extension.initialize))
ValidExtensions(exts) == \A i \in DOMAIN exts : HasInitialize(exts[i])

\* this.config.extensions.forEach(item => isNullOrUndefined(item))
ValidConfigExtensions(exts) == \A i \in DOMAIN exts : exts[i] # NullExt

\* if (t && t.priority): the priorities the duplicate check records.
CountsInPriorityCheck(e) == HasPriority(e) /\ Priority(e) # 0

HasDuplicatePriority(list) ==
    \E i, j \in DOMAIN list :
        /\ i < j
        /\ CountsInPriorityCheck(list[i])
        /\ CountsInPriorityCheck(list[j])
        /\ Priority(list[i]) = Priority(list[j])

\* The index of the first element whose initialize is not callable, or 0.
FirstUninitializable(list) ==
    LET bad == {i \in DOMAIN list : ~HasInitialize(list[i])}
    IN  IF bad = {} THEN 0 ELSE CHOOSE i \in bad : \A j \in bad : i <= j

\* A slip of the index: the extension is given itself as successor.
LinkTargetSelf(list, idx) == list[idx]

\* The successor given to this._extensions[idx] by the linking loop.
LinkTarget(list, idx) == list[idx + 1]

\* for (idx = 0; idx < this._extensions.length - 1; idx++), idx from 1 here.
RECURSIVE LinkExtensions(_, _, _)
LinkExtensions(list, idx, acc) ==
    IF idx > Len(list) - 1 THEN acc
    ELSE LET curr == list[idx]
         IN  IF ~HasProcessTelemetry(curr) THEN LinkExtensions(list, idx + 1, acc)
             ELSE IF Priority(curr) = ChannelControllerPriority THEN acc
             ELSE LinkExtensions(list, idx + 1,
                    [next |-> [acc.next EXCEPT ![curr] = LinkTarget(list, idx)],
                     trace |-> Append(acc.trace,
                                 Event("setNextPlugin", curr, LinkTarget(list, idx)))])

\* Lines 109-133: initialize every extension, link, check the channels.
InitializeExtensions(core) ==
    LET list == core.extensions
        bad == FirstUninitializable(list)
    IN  IF bad # 0
        THEN Outcome(core, "TypeError", InitEvents(SubSeq(list, 1, bad - 1)))
        ELSE LET ctrl == ControllerInitialize(core.cfgObj, list, core.nextPlugin)
                 inits == InitEvents(list) \o ctrl.trace
                 linked == LinkExtensions(list, 1, [next |-> ctrl.next, trace |-> inits])
                 wired == [core EXCEPT !.cfgObj.channels = ctrl.channels,
                                       !.channelQueue = ctrl.queues,
                                       !.channelQueueSet = TRUE,
                                       !.nextPlugin = linked.next]
             IN  IF Len(ctrl.queues) = 0
                 THEN Outcome(wired, "NoChannelsAvailable", linked.trace)
                 ELSE Outcome([wired EXCEPT !.isInitialized = TRUE], "none", linked.trace)

\* Lines 42-106, once the configuration has been accepted.
AssembleExtensions(core, exts) ==
    LET configured ==
            [core EXCEPT !.configSet = TRUE,
                         !.notificationManager = TRUE,
                         !.cfgObj.hasExtensions = TRUE,
                         !.cfgObj.hasNotificationManager = TRUE,
                         !.logger = TRUE,
                         !.loggerQueue = <<>>]
        configExts == configured.cfgObj.extensions
        sorted == SortBy("extensions", exts \o configExts)
        assembled == [configured EXCEPT !.extensions = Append(sorted, Controller)]
    IN  IF ~ValidExtensions(exts) THEN Outcome(configured, "InvalidExtension", <<>>)
        ELSE IF ~ValidConfigExtensions(configExts)
        THEN Outcome(configured, "InvalidExtension", <<>>)
        ELSE IF HasDuplicatePriority(assembled.extensions)
        THEN Outcome(assembled, "DuplicatePriority", <<>>)
        ELSE InitializeExtensions(assembled)

\* initialize without its first check.
InitializeCallUnguarded(core, hasConfig, exts) ==
    IF ~hasConfig \/ IsNullOrUndefined(core.cfgObj.instrumentationKey)
    THEN Outcome(core, "MissingInstrumentationKey", <<>>)
    ELSE AssembleExtensions(core, exts)

\* initialize(config, extensions); hasConfig: the config argument is an object.
InitializeCall(core, hasConfig, exts) ==
    IF core.isInitialized THEN Outcome(core, "AlreadyInitialized", <<>>)
    ELSE IF ~hasConfig \/ IsNullOrUndefined(core.cfgObj.instrumentationKey)
    THEN Outcome(core, "MissingInstrumentationKey", <<>>)
    ELSE AssembleExtensions(core, exts)

\* ------------------------------------------------------- processTelemetry
NoError == "none"

Result(events, error) == [trace |-> events, err |-> error]

\* A pick-one instead of a broadcast: only the first non-empty queue.
FanOutFirstOnly(queues) ==
    LET nonEmpty == SelectSeq(queues, LAMBDA q : Len(q) > 0)
    IN  IF nonEmpty = <<>> THEN <<>> ELSE <<nonEmpty[1]>>

\* The queues whose head ChannelController.processTelemetry calls, in order.
FanOutQueues(queues) == SelectSeq(queues, LAMBDA q : Len(q) > 0)

\* caller invokes e.processTelemetry(item) with `depth` stack frames left.  An
\* extension's own processTelemetry throws (e \in throwing) or hands the item
\* to the successor last given to its setNextPlugin, if any.  An error thrown
\* by a callee propagates through every caller: nothing catches.
RECURSIVE ProcessTelemetry(_, _, _, _, _)
RECURSIVE FanOut(_, _, _, _, _)
ProcessTelemetry(core, throwing, caller, e, depth) ==
    LET call == <<Event("processTelemetry", caller, e)>>
    IN  IF depth = 0 THEN Result(<<>>, "RangeError")
        ELSE IF e = Controller
        THEN IF ~core.channelQueueSet THEN Result(call, "TypeError")
             ELSE LET r == FanOut(core, throwing, FanOutQueues(core.channelQueue), 1, depth - 1)
                  IN  Result(call \o r.trace, r.err)
        ELSE IF e \in throwing THEN Result(call, "PluginError")
        ELSE IF core.nextPlugin[e] = NoNext THEN Result(call, NoError)
        ELSE LET r == ProcessTelemetry(core, throwing, e, core.nextPlugin[e], depth - 1)
             IN  Result(call \o r.trace, r.err)

\* this.channelQueue.forEach(queues => queues[0].processTelemetry(item))
FanOut(core, throwing, queues, i, depth) ==
    IF i > Len(queues) THEN Result(<<>>, NoError)
    ELSE LET head == ProcessTelemetry(core, throwing, Controller, queues[i][1], depth)
         IN  IF head.err # NoError THEN head
             ELSE LET rest == FanOut(core, throwing, queues, i + 1, depth)
                  IN  Result(head.trace \o rest.trace, rest.err)

\* ---------------------------------------------------- AppInsightsCore.track
TrackResult(it, error, events) == [item |-> it, err |-> error, trace |-> events]

\* The throw without the notification before it.
DiscardSilently(core, it, error) == TrackResult(it, error, <<>>)

\* _notifiyInvalidEvent, then the throw that follows it.
Discard(core, it, error) ==
    IF core.notificationManager
    THEN TrackResult(it, error, <<Event("eventsDiscarded", "InvalidEvent", "")>>)
    ELSE TrackResult(it, "TypeError", <<>>)

\* The index of the first element exposing processTelemetry, or 0.
FirstProcessor(list) ==
    LET can == {i \in DOMAIN list : HasProcessTelemetry(list[i])}
    IN  IF can = {} THEN 0 ELSE CHOOSE i \in can : \A j \in can : i <= j

\* The loop without its break: every processing extension is called in turn.
RECURSIVE CallEach(_, _, _, _)
CallEach(core, throwing, list, i) ==
    IF i > Len(list) THEN Result(<<>>, NoError)
    ELSE IF ~HasProcessTelemetry(list[i]) THEN CallEach(core, throwing, list, i + 1)
    ELSE LET r == ProcessTelemetry(core, throwing, "core", list[i], MaxDepth)
         IN  IF r.err # NoError THEN r
             ELSE LET rest == CallEach(core, throwing, list, i + 1)
                  IN  Result(r.trace \o rest.trace, rest.err)

DispatchNoBreak(core, throwing, it) ==
    LET r == CallEach(core, throwing, core.extensions, 1)
    IN  TrackResult(it, r.err, r.trace)

\* Lines 168-177: hand the item to the first processing extension.
Dispatch(core, throwing, it) ==
    LET first == FirstProcessor(core.extensions)
    IN  IF first = 0 THEN TrackResult(it, NoError, <<>>)
        ELSE LET r == ProcessTelemetry(core, throwing, "core", core.extensions[first], MaxDepth)
             IN  TrackResult(it, r.err, r.trace)

\* _validateTelmetryItem, then the dispatch.
ValidateAndDispatch(core, throwing, it) ==
    IF IsNullOrUndefined(it.name) THEN Discard(core, it, "MissingName")
    ELSE IF IsNullOrUndefined(it.timestamp) THEN Discard(core, it, "MissingTimestamp")
    ELSE IF IsNullOrUndefined(it.instrumentationKey)
    THEN Discard(core, it, "MissingInstrumentationKey")
    ELSE Dispatch(core, throwing, it)

\* The defaults without the instrumentation key's.
ApplyDefaultsKeepKey(core, throwing, it) ==
    LET typed == IF ~Truthy(it.baseType) THEN [it EXCEPT !.baseType = "EventData"] ELSE it
        timed == IF ~Truthy(typed.timestamp) THEN [typed EXCEPT !.timestamp = Now] ELSE typed
    IN  ValidateAndDispatch(core, throwing, timed)

\* Lines 151-163: the defaults; reading this.config fails before it is assigned.
ApplyDefaults(core, throwing, it) ==
    LET typed == IF ~Truthy(it.baseType) THEN [it EXCEPT !.baseType = "EventData"] ELSE it
        keyed == IF ~Truthy(typed.instrumentationKey)
                 THEN [typed EXCEPT !.instrumentationKey = core.cfgObj.instrumentationKey]
                 ELSE typed
        timed == IF ~Truthy(keyed.timestamp) THEN [keyed EXCEPT !.timestamp = Now] ELSE keyed
    IN  IF ~Truthy(typed.instrumentationKey) /\ ~core.configSet
        THEN TrackResult(typed, "TypeError", <<>>)
        ELSE ValidateAndDispatch(core, throwing, timed)

\* base data without a base type
MissingBaseType(it) == Truthy(it.baseData) /\ ~Truthy(it.baseType)

\* The defaults applied before the base-type check.
TrackCallDefaultsFirst(core, throwing, it) ==
    IF it.kind = Null THEN Discard(core, it, "InvalidItem")
    ELSE IF it.kind = Undef THEN TrackResult(it, "TypeError", <<>>)
    ELSE LET typed == IF ~Truthy(it.baseType) THEN [it EXCEPT !.baseType = "EventData"]
                      ELSE it
         IN  IF MissingBaseType(typed) THEN Discard(core, typed, "MissingBaseType")
             ELSE ApplyDefaults(core, throwing, typed)

TrackCall(core, throwing, it) ==
    IF it.kind = Null THEN Discard(core, it, "InvalidItem")
    ELSE IF it.kind = Undef THEN TrackResult(it, "TypeError", <<>>)
    ELSE IF MissingBaseType(it) THEN Discard(core, it, "MissingBaseType")
    ELSE ApplyDefaults(core, throwing, it)

\* ------------------------------------------ AppInsightsCore.pollInternalLogs
\* !(this.config.diagnosticLoggingInterval > 0): undefined compares as NaN.
IntervalIsPositive(config) == config.hasInterval /\ config.diagnosticLoggingInterval > 0

\* The item the interval's callback builds from one message (lines 210-216).
LogItem(core) ==
    [kind |-> "object", name |-> "InternalMessageId", baseType |-> "MessageData",
     baseData |-> "message", instrumentationKey |-> core.cfgObj.instrumentationKey,
     timestamp |-> Now]

\* The call handed the item to an extension of the application's.
ReachedExtension(events) ==
    \E k \in DOMAIN events :
        events[k].ev = "processTelemetry" /\ events[k].b # Controller

\* What one callback has done so far: the queue array, the messages logged,
\* the conversions per message, those of this callback, and its calls.
Pass(queue, count, conversions, done, error, events) ==
    [queue |-> queue, logged |-> count, passed |-> conversions, converted |-> done,
     err |-> error, trace |-> events]

\* queue.forEach over the indexes i..n, n the length when forEach began.  The
\* track call of index i runs with the extensions of `throwing` throwing when
\* i >= failFrom; an extension it reaches logs one more message when i = noisy.
\* A track call that throws ends the forEach and the callback.
RECURSIVE ForEachMessage(_, _, _, _, _, _, _)
ForEachMessage(core, throwing, failFrom, noisy, i, n, acc) ==
    IF i > n THEN acc
    ELSE LET m == acc.queue[i]
             r == TrackCall(core, IF i >= failFrom THEN throwing ELSE {}, LogItem(core))
             logs == i = noisy /\ ReachedExtension(r.trace) /\ acc.logged < MaxMessages
             after == Pass(IF logs THEN Append(acc.queue, acc.logged + 1) ELSE acc.queue,
                           IF logs THEN acc.logged + 1 ELSE acc.logged,
                           [acc.passed EXCEPT ![m] = @ + 1],
                           Append(acc.converted, m),
                           r.err,
                           acc.trace \o r.trace)
         IN  IF r.err # NoError THEN after
             ELSE ForEachMessage(core, throwing, failFrom, noisy, i + 1, n, after)

\* The callback given to setInterval (lines 206-221), run to its end.
\* queue.length = 0 is reached only when forEach returned.
IntervalCallback(core, throwing, failFrom, noisy, count, conversions) ==
    LET start == Pass(core.loggerQueue, count, conversions, <<>>, NoError, <<>>)
        pass == ForEachMessage(core, throwing, failFrom, noisy, 1,
                               Len(core.loggerQueue), start)
    IN  IF pass.err # NoError THEN [pass |-> pass, queue |-> pass.queue, removed |-> {}]
        ELSE [pass |-> pass, queue |-> <<>>, removed |-> Range(pass.queue)]

\* ------------------------------------------------- what the application has
ExtLists(pool, n) == {s \in SeqsUpTo(pool, n) : NoRepeat(s)}

Queues == ExtLists(ChannelExts, MaxQueueLen)

ChannelChoices ==
    {[has |-> FALSE, list |-> <<>>]}
        \cup {[has |-> TRUE, list |-> l] : l \in SeqsUpTo(Queues, MaxQueues)}

ConfigExtensionChoices ==
    {[has |-> FALSE, list |-> <<>>]}
        \cup {[has |-> TRUE, list |-> <<e>>] : e \in {NullExt, "noInit", "p5"}}

Configs(keys, extensionChoices, channelChoices) ==
    {[instrumentationKey |-> k, hasExtensions |-> x.has, extensions |-> x.list,
      hasChannels |-> c.has, channels |-> c.list, hasNotificationManager |-> FALSE,
      hasInterval |-> FALSE, diagnosticLoggingInterval |-> 0] :
        k \in keys, x \in extensionChoices, c \in channelChoices}

\* The extensions whose processTelemetry throws during one track call.
Throwing == {{}} \cup {{e} : e \in ProcessingExts}

NoItem ==
    [kind |-> "none", name |-> Undef, baseType |-> Undef, baseData |-> Undef,
     instrumentationKey |-> Undef, timestamp |-> Undef]

ItemObjects(names, types, datas, keys, stamps) ==
    {[kind |-> "object", name |-> n, baseType |-> t, baseData |-> d,
      instrumentationKey |-> k, timestamp |-> s] :
        n \in names, t \in types, d \in datas, k \in keys, s \in stamps}

NullItems == {[NoItem EXCEPT !.kind = Null], [NoItem EXCEPT !.kind = Undef]}

AllItems ==
    NullItems \cup ItemObjects({Undef, "X"}, {Undef, "", "T"}, {Undef, "data"},
                               {Undef, "", "ik"}, {Undef, "t0"})

BasicItems ==
    NullItems \cup ItemObjects({Undef, "X"}, {Undef}, {Undef, "data"}, {Undef}, {Undef})
        \cup ItemObjects({"X"}, {"T"}, {"data"}, {"ik"}, {"t0"})

\* The state after `new AppInsightsCore()`, the application holding one
\* configuration object and one extension array.
Constructed(configs, lists) ==
    /\ isInitialized = FALSE
    /\ configSet = FALSE
    /\ notificationManager = FALSE
    /\ cfgObj \in configs
    /\ extensions = <<>>
    /\ channelQueue = <<>>
    /\ channelQueueSet = FALSE
    /\ nextPlugin = [e \in AllExts |-> NoNext]
    /\ appExts \in lists
    /\ logger = FALSE
    /\ loggerQueue = <<>>
    /\ timers = 0
    /\ logged = 0
    /\ passed = [m \in 1..MaxMessages |-> 0]
    /\ removed = {}
    /\ initErr = "never"
    /\ configArg = "none"
    /\ converted = <<>>
    /\ op = "none"
    /\ err = NoError
    /\ trace = <<>>
    /\ itemArg = NoItem
    /\ item = NoItem

NoConfigExtensions == {[has |-> FALSE, list |-> <<>>]}

IntervalChoices ==
    {[has |-> FALSE, value |-> 0], [has |-> TRUE, value |-> 0], [has |-> TRUE, value |-> 100]}

\* A few pipelines, with and without a diagnostic logging interval.
InitPump ==
    Constructed({[c EXCEPT !.hasInterval = i.has, !.diagnosticLoggingInterval = i.value] :
                    c \in Configs({"abc"}, NoConfigExtensions,
                                  {[has |-> FALSE, list |-> <<>>],
                                   [has |-> TRUE, list |-> << <<"c400">> >>]}),
                    i \in IntervalChoices},
                ExtLists({"plainA", "p5"}, MaxExts))

\* Every extension list the pools allow, over a few channel declarations.
Init ==
    Constructed(Configs({"abc"}, ConfigExtensionChoices,
                        {[has |-> FALSE, list |-> <<>>],
                         [has |-> TRUE, list |-> <<>>],
                         [has |-> TRUE, list |-> << <<>> >>],
                         [has |-> TRUE, list |-> << <<"c400", "c300">> >>],
                         [has |-> TRUE, list |-> << <<"c300">>, <<"c400">> >>]}),
                ExtLists(PlainExts \cup ProcessingExts, MaxExts))

\* Every channel declaration the pools allow, over a few extension lists.
InitFanOut ==
    Constructed(Configs({"abc"}, NoConfigExtensions, ChannelChoices),
                ExtLists({"p5", "c300"}, MaxExts))

\* Every instrumentation key, over a few pipelines.
InitItems ==
    Constructed(Configs({Undef, "", "abc"},
                        NoConfigExtensions,
                        {[has |-> FALSE, list |-> <<>>],
                         [has |-> TRUE, list |-> << <<"c400">> >>]}),
                ExtLists({"plainA", "p5", "c300"}, MaxExts))

\* Two plain extensions among the processing ones, with or without one more
\* extension in config.extensions.
InitOrder ==
    Constructed(Configs({"abc"}, ConfigExtensionChoices,
                        {[has |-> FALSE, list |-> <<>>],
                         [has |-> TRUE, list |-> << <<"c400">> >>]}),
                ExtLists({"plainA", "plainB", "p0a", "p5", "c300"}, MaxExts))

\* ------------------------------------------------------------- the actions
SetCore(core) ==
    /\ isInitialized' = core.isInitialized
    /\ configSet' = core.configSet
    /\ notificationManager' = core.notificationManager
    /\ cfgObj' = core.cfgObj
    /\ extensions' = core.extensions
    /\ channelQueue' = core.channelQueue
    /\ channelQueueSet' = core.channelQueueSet
    /\ nextPlugin' = core.nextPlugin
    /\ logger' = core.logger
    /\ loggerQueue' = core.loggerQueue

\* The application calls core.initialize with its configuration object (or
\* with none) and its extension array.
Initialize ==
    /\ op = "none"
    /\ \E hasConfig \in BOOLEAN :
        LET r == InitializeCall(Core, hasConfig, appExts)
        IN  /\ SetCore(r.core)
            /\ op' = "initialize"
            /\ err' = r.err
            /\ initErr' = r.err
            /\ configArg' = IF hasConfig THEN "object" ELSE Undef
            /\ trace' = r.trace
            /\ UNCHANGED <<appExts, timers, logged, passed, removed, converted,
                           itemArg, item>>

TrackItem(it, throwing) ==
    LET r == TrackCall(Core, throwing, it)
    IN  /\ op = "none"
        /\ op' = "track"
        /\ err' = r.err
        /\ trace' = r.trace
        /\ itemArg' = it
        /\ item' = r.item
        /\ UNCHANGED <<isInitialized, configSet, notificationManager, cfgObj, extensions,
                       channelQueue, channelQueueSet, nextPlugin, appExts, logger,
                       loggerQueue, timers, logged, passed, removed, initErr, configArg,
                       converted>>

\* The application calls core.track(item).
Track == \E it \in BasicItems, throwing \in Throwing : TrackItem(it, throwing)

\* The call has returned or thrown; its caller goes on and drops the outcome.
Return ==
    /\ op # "none"
    /\ op' = "none"
    /\ err' = NoError
    /\ trace' = <<>>
    /\ itemArg' = NoItem
    /\ item' = NoItem
    /\ configArg' = "none"
    /\ converted' = <<>>
    /\ UNCHANGED <<isInitialized, configSet, notificationManager, cfgObj, extensions,
                   channelQueue, channelQueueSet, nextPlugin, appExts, logger,
                   loggerQueue, timers, logged, passed, removed, initErr>>

\* The application calls core.track with any item at all.
TrackAny == \E it \in AllItems, throwing \in Throwing : TrackItem(it, throwing)

\* The application calls core.pollInternalLogs().
PollInternalLogs ==
    /\ op = "none"
    /\ timers < MaxTimers
    /\ op' = "pollInternalLogs"
    /\ err' = IF ~configSet THEN "TypeError"
              ELSE IF ~IntervalIsPositive(cfgObj) THEN "InvalidInterval"
              ELSE NoError
    /\ timers' = IF configSet /\ IntervalIsPositive(cfgObj) THEN timers + 1 ELSE timers
    /\ UNCHANGED <<isInitialized, configSet, notificationManager, cfgObj, extensions,
                   channelQueue, channelQueueSet, nextPlugin, appExts, logger,
                   loggerQueue, logged, passed, removed, initErr, configArg, converted,
                   trace, itemArg, item>>

\* Between two calls, the application or an extension logs a message: the
\* logger appends it to its queue.
Log ==
    /\ op = "none"
    /\ logger
    /\ logged < MaxMessages
    /\ loggerQueue' = Append(loggerQueue, logged + 1)
    /\ logged' = logged + 1
    /\ UNCHANGED <<isInitialized, configSet, notificationManager, cfgObj, extensions,
                   channelQueue, channelQueueSet, nextPlugin, appExts, logger, timers,
                   passed, removed, initErr, configArg, converted, op, err, trace,
                   itemArg, item>>

\* An installed interval fires while no call is running.
Tick ==
    /\ op = "none"
    /\ timers > 0
    /\ \A i \in DOMAIN loggerQueue : passed[loggerQueue[i]] < MaxConversions
    /\ \E throwing \in Throwing, failFrom \in 1..MaxMessages, noisy \in 0..MaxMessages :
          LET r == IntervalCallback(Core, throwing, failFrom, noisy, logged, passed)
          IN  /\ loggerQueue' = r.queue
              /\ removed' = removed \cup r.removed
              /\ logged' = r.pass.logged
              /\ passed' = r.pass.passed
              /\ converted' = r.pass.converted
              /\ op' = "tick"
              /\ err' = r.pass.err
              /\ trace' = r.pass.trace
    /\ UNCHANGED <<isInitialized, configSet, notificationManager, cfgObj, extensions,
                   channelQueue, channelQueueSet, nextPlugin, appExts, logger, timers,
                   initErr, configArg, itemArg, item>>

Next == Initialize \/ Track \/ Return

Spec == Init /\ [][Next]_vars

SpecFanOut == InitFanOut /\ [][Next]_vars

SpecOrder == InitOrder /\ [][Next]_vars

NextItems == Initialize \/ TrackAny \/ Return

SpecItems == InitItems /\ [][NextItems]_vars

NextPump == Initialize \/ PollInternalLogs \/ Log \/ Tick \/ Return

SpecPump == InitPump /\ [][NextPump]_vars

\* ------------------------------------------------------------ properties
InitializeCalls(tr) == SelectSeq(tr, LAMBDA x : x.ev = "initialize")

Deliveries(tr) == SelectSeq(tr, LAMBDA x : x.ev = "processTelemetry")

CallsBy(tr, caller) == SelectSeq(Deliveries(tr), LAMBDA x : x.a = caller)

TimesReceived(tr, e) ==
    Cardinality({k \in DOMAIN tr : tr[k].ev = "processTelemetry" /\ tr[k].b = e})

DiscardNotice == Event("eventsDiscarded", "InvalidEvent", "")

\* The list initialize works on: the supplied extensions, then config.extensions.
GivenExtensions == appExts \o cfgObj.extensions

SharePriority(list) ==
    \E i, j \in DOMAIN list :
        /\ i < j
        /\ HasProcessTelemetry(list[i])
        /\ HasProcessTelemetry(list[j])
        /\ Priority(list[i]) = Priority(list[j])

\* The processing extensions of the assembled list, the controller aside.
ChainExtensions ==
    {extensions[i] : i \in {j \in DOMAIN extensions :
        HasProcessTelemetry(extensions[j]) /\ extensions[j] # Controller}}

RECURSIVE ReachesController(_, _)
ReachesController(e, steps) ==
    \/ e = Controller
    \/ /\ steps > 0
       /\ e # NoNext
       /\ ReachesController(nextPlugin[e], steps - 1)

\* The item has what track requires of it: no base data without a base type,
\* and a name.
PassesValidation(it) ==
    it.kind = "object" /\ ~MissingBaseType(it) /\ ~IsNullOrUndefined(it.name)

SetupErrors ==
    {"MissingInstrumentationKey", "InvalidExtension", "DuplicatePriority",
     "NoChannelsAvailable"}

DispatchErrors ==
    {"InvalidItem", "MissingBaseType", "MissingName", "MissingTimestamp",
     "MissingInstrumentationKey"}

\* C1: whenever initialize gets as far as its priority check with a list in
\* which two processing extensions have the same priority, whatever its value,
\* it fails with DuplicatePriority, no extension's initialize having been called.
C1_DuplicatePriorityRejected ==
    (/\ op = "initialize"
     /\ err \notin {"AlreadyInitialized", "MissingInstrumentationKey", "InvalidExtension"}
     /\ SharePriority(GivenExtensions))
        => (err = "DuplicatePriority" /\ InitializeCalls(trace) = <<>>)

\* C2: once initialize has succeeded, every processing extension of the
\* assembled list other than the channel controller has a successor, and
\* following successors from it reaches the channel controller.
C2_SuccessorsReachController ==
    isInitialized =>
        \A e \in ChainExtensions :
            nextPlugin[e] # NoNext /\ ReachesController(e, Cardinality(AllExts))

C2_Witness ==
    /\ isInitialized
    /\ op = "initialize"
    /\ err = NoError
    /\ Cardinality(ChainExtensions) >= 2
    /\ \E i \in DOMAIN extensions : ~HasProcessTelemetry(extensions[i])

\* C3: on an initialized Core, a track call whose item passes validation calls
\* processTelemetry on exactly one element of the assembled list, the first
\* one in list order that has processTelemetry.
C3_TrackCallsFirstProcessorOnce ==
    (isInitialized /\ op = "track" /\ PassesValidation(itemArg)) =>
        LET direct == CallsBy(trace, "core")
        IN  /\ Len(direct) = 1
            /\ \E i \in DOMAIN extensions :
                /\ extensions[i] = direct[1].b
                /\ HasProcessTelemetry(extensions[i])
                /\ \A j \in 1..(i - 1) : ~HasProcessTelemetry(extensions[j])

C3_Witness ==
    /\ isInitialized
    /\ op = "track"
    /\ PassesValidation(itemArg)
    /\ Len(extensions) >= 3
    /\ ~HasProcessTelemetry(extensions[1])
    /\ CallsBy(trace, "core") = <<Event("processTelemetry", "core", extensions[2])>>
    /\ extensions[2] # Controller

\* C4: when an extension throws during a fan-out over two or more retained
\* queues, the controller has still called the head of every retained queue.
C4_FanOutIsolatesQueues ==
    (/\ isInitialized
     /\ op = "track"
     /\ err = "PluginError"
     /\ Len(channelQueue) >= 2
     /\ TimesReceived(trace, Controller) > 0)
        => \A i \in DOMAIN channelQueue :
              \E k \in DOMAIN trace :
                  trace[k] = Event("processTelemetry", Controller, channelQueue[i][1])

\* C5: when nothing throws, the calls the controller makes during a track call
\* are one call per retained queue, in queue order, each on the queue's first
\* member.
C5_FanOutCallsEachHeadOnce ==
    (isInitialized /\ op = "track" /\ err = NoError /\ TimesReceived(trace, Controller) > 0)
        => LET calls == CallsBy(trace, Controller)
           IN  /\ Len(calls) = Len(channelQueue)
               /\ \A i \in DOMAIN channelQueue : calls[i].b = channelQueue[i][1]

C5_Witness ==
    /\ isInitialized
    /\ op = "track"
    /\ err = NoError
    /\ Len(channelQueue) = 2
    /\ Len(channelQueue[1]) = 2
    /\ channelQueue[1][1] # channelQueue[2][1]
    /\ Len(CallsBy(trace, Controller)) = 2

\* C6: on an initialized Core, when no extension throws, a track call with a
\* valid item ends without error and no extension or channel has received the
\* item more than once.
C6_TrackTerminatesWithoutCycle ==
    (isInitialized /\ op = "track" /\ PassesValidation(itemArg) /\ err # "PluginError")
        => /\ err = NoError
           /\ \A e \in AllExts : TimesReceived(trace, e) <= 1

\* C7: an initialize call on an initialized Core fails with AlreadyInitialized,
\* calls nothing, and leaves the extension list, the links, the channel queues
\* and the configuration as they were.
C7_ReinitializeRejected ==
    [][(isInitialized /\ op' = "initialize") =>
          /\ err' = "AlreadyInitialized"
          /\ trace' = <<>>
          /\ UNCHANGED <<isInitialized, configSet, notificationManager, cfgObj,
                         extensions, channelQueue, channelQueueSet, nextPlugin>>]_vars

C7_Witness == isInitialized /\ op = "initialize" /\ err = "AlreadyInitialized"

\* C8: when the last initialize call failed with a SetupError, a track call
\* delivers the item to no extension and no channel of the application's.
C8_NoPipelineAfterSetupError ==
    (op = "track" /\ initErr \in SetupErrors) =>
        \A k \in DOMAIN trace :
            trace[k].ev = "processTelemetry" => trace[k].b = Controller

\* C9: on an initialized Core, a track call that fails with a DispatchError has
\* made exactly one call, the discard notification with reason InvalidEvent,
\* and track(null) fails with InvalidItem.
C9_DispatchErrorDiscardsOnce ==
    (isInitialized /\ op = "track") =>
        /\ err \in DispatchErrors => trace = <<DiscardNotice>>
        /\ itemArg.kind = Null => err = "InvalidItem"
        /\ (itemArg.kind = "object" /\ ~PassesValidation(itemArg)) => err \in DispatchErrors

C9_Witness ==
    /\ isInitialized
    /\ op = "track"
    /\ itemArg.kind = Null
    /\ err = "InvalidItem"
    /\ trace = <<DiscardNotice>>

\* C10: a track call given base data without a base type leaves the item as
\* the caller passed it and reaches no extension, and on a Core that has its
\* notification manager the call fails with MissingBaseType after the discard
\* notification.
C10_MissingBaseTypeBeforeDefaults ==
    (op = "track" /\ itemArg.kind = "object" /\ MissingBaseType(itemArg)) =>
        /\ item = itemArg
        /\ Deliveries(trace) = <<>>
        /\ notificationManager => (err = "MissingBaseType" /\ trace = <<DiscardNotice>>)

C10_Witness ==
    /\ isInitialized
    /\ op = "track"
    /\ MissingBaseType(itemArg)
    /\ itemArg.instrumentationKey = Undef
    /\ itemArg.timestamp = Undef
    /\ err = "MissingBaseType"
    /\ item = itemArg

\* The value track leaves in a field the caller gave as `given`: the default
\* where the field was absent (undefined, null or empty: the code's `!field`).
Defaulted(given, default) == IF Truthy(given) THEN given ELSE default

\* C11: on an initialized Core, a track call given an item with a name and no
\* base data hands the first processor the item with base type "EventData"
\* where it was absent, the configured instrumentation key where it was absent,
\* a timestamp that is neither null nor undefined, and every field the caller
\* supplied as the caller supplied it.
C11_DefaultsDelivered ==
    (/\ isInitialized
     /\ op = "track"
     /\ itemArg.kind = "object"
     /\ ~IsNullOrUndefined(itemArg.name)
     /\ ~Truthy(itemArg.baseData))
        => /\ Len(CallsBy(trace, "core")) = 1
           /\ item.name = itemArg.name
           /\ item.baseData = itemArg.baseData
           /\ item.baseType = Defaulted(itemArg.baseType, "EventData")
           /\ item.instrumentationKey
                  = Defaulted(itemArg.instrumentationKey, cfgObj.instrumentationKey)
           /\ ~IsNullOrUndefined(item.timestamp)
           /\ Truthy(itemArg.timestamp) => item.timestamp = itemArg.timestamp

C11_Witness ==
    /\ isInitialized
    /\ op = "track"
    /\ err = NoError
    /\ itemArg = [NoItem EXCEPT !.kind = "object", !.name = "X"]
    /\ cfgObj.instrumentationKey = "abc"
    /\ item = [itemArg EXCEPT !.baseType = "EventData", !.instrumentationKey = "abc",
                              !.timestamp = Now]
    /\ Len(CallsBy(trace, "core")) = 1

\* The errors initialize raises after it has ordered the list, and no error.
AfterOrdering == {"DuplicatePriority", "TypeError", "NoChannelsAvailable", NoError}

IsProcessing(e) == HasProcessTelemetry(e)

IsPlain(e) == ~HasProcessTelemetry(e)

\* C12: whenever initialize gets past its ordering step, the assembled list is
\* the plain extensions of the given list in their given order, then its
\* processing extensions by ascending priority, then the channel controller,
\* and the initialize calls the Core makes are made on that list in that order.
C12_AssembledOrder ==
    (op = "initialize" /\ err \in AfterOrdering) =>
        LET given == GivenExtensions
            n == Len(given)
            plains == SelectSeq(given, IsPlain)
            k == Len(plains)
            calls == InitializeCalls(trace)
            m == IF Len(calls) < n + 1 THEN Len(calls) ELSE n + 1
        IN  /\ Len(extensions) = n + 1
            /\ extensions[n + 1] = Controller
            /\ SubSeq(extensions, 1, k) = plains
            /\ \A i \in (k + 1)..n : IsProcessing(extensions[i])
            /\ \A i, j \in (k + 1)..n :
                  i < j => Priority(extensions[i]) <= Priority(extensions[j])
            /\ {extensions[i] : i \in (k + 1)..n} = {e \in Range(given) : IsProcessing(e)}
            /\ SubSeq(calls, 1, m) = SubSeq(InitEvents(extensions), 1, m)
            /\ err \in {NoError, "NoChannelsAvailable"} => m = n + 1
            /\ err = "DuplicatePriority" => m = 0

C12_Witness ==
    /\ op = "initialize"
    /\ err = NoError
    /\ appExts = <<"c300", "plainA">>
    /\ cfgObj.extensions = <<"p5">>
    /\ extensions = <<"plainA", "p5", "c300", Controller>>
    /\ SubSeq(InitializeCalls(trace), 1, 4) = InitEvents(extensions)

\* C13: once initialize has succeeded, every retained queue is in ascending
\* priority order, each member but the last has the next member of its queue
\* as successor, and no member has a successor outside its queue.
C13_QueuesChainedWithinThemselves ==
    isInitialized =>
        \A q \in DOMAIN channelQueue :
            LET queue == channelQueue[q]
            IN  /\ \A i, j \in DOMAIN queue :
                      i < j => Priority(queue[i]) <= Priority(queue[j])
                /\ \A i \in 1..(Len(queue) - 1) : nextPlugin[queue[i]] = queue[i + 1]
                /\ \A i \in DOMAIN queue :
                      nextPlugin[queue[i]] \in Range(queue) \cup {NoNext}

\* The errors initialize raises before it looks at the channels.
BeforeChannelCheck ==
    {"AlreadyInitialized", "MissingInstrumentationKey", "InvalidExtension",
     "DuplicatePriority", "TypeError"}

\* The configuration and the extensions give the controller no queue to keep:
\* every declared queue is empty, or nothing is declared and no extension has
\* a priority above the controller's.
NoQueueConfigured ==
    IF cfgObj.hasChannels
    THEN \A i \in DOMAIN cfgObj.channels : cfgObj.channels[i] = <<>>
    ELSE \A i \in DOMAIN GivenExtensions :
            ~(HasPriority(GivenExtensions[i])
              /\ Priority(GivenExtensions[i]) > ChannelControllerPriority)

\* C14: an initialized Core has at least one retained queue and no retained
\* queue is empty; an initialize call that reaches the channel check with
\* nothing to retain fails with NoChannelsAvailable and leaves the Core
\* uninitialized.
C14_InitializedOnlyWithChannels ==
    /\ isInitialized =>
          /\ Len(channelQueue) >= 1
          /\ \A q \in DOMAIN channelQueue : Len(channelQueue[q]) >= 1
    /\ (op = "initialize" /\ err \notin BeforeChannelCheck /\ NoQueueConfigured) =>
          (err = "NoChannelsAvailable" /\ ~isInitialized)

C14_Witness ==
    /\ op = "initialize"
    /\ err = "NoChannelsAvailable"
    /\ ~isInitialized
    /\ cfgObj.hasChannels
    /\ cfgObj.channels = << <<>>, <<>> >>
    /\ appExts = <<"c300">>

\* C15: an initialize call on a Core not yet initialized, given no
\* configuration or one whose instrumentation key is missing or empty, fails
\* with MissingInstrumentationKey, calls no extension's initialize and leaves
\* the Core uninitialized.
C15_MissingKeyRejected ==
    (/\ op = "initialize"
     /\ err # "AlreadyInitialized"
     /\ (configArg = Undef \/ ~Truthy(cfgObj.instrumentationKey)))
        => /\ err = "MissingInstrumentationKey"
           /\ InitializeCalls(trace) = <<>>
           /\ ~isInitialized

\* C16: an initialize call that gets past the configuration checks, given a
\* supplied extension or an extension of config.extensions without an
\* initialize capability, fails with InvalidExtension before any extension's
\* initialize has been called.
C16_InvalidExtensionRejected ==
    (/\ op = "initialize"
     /\ err \notin {"AlreadyInitialized", "MissingInstrumentationKey"}
     /\ \E i \in DOMAIN GivenExtensions : ~HasInitialize(GivenExtensions[i]))
        => /\ err = "InvalidExtension"
           /\ InitializeCalls(trace) = <<>>

TimesInitialized(tr, e) ==
    Cardinality({k \in DOMAIN tr : tr[k].ev = "initialize" /\ tr[k].a = e})

\* The members of the retained queues.
QueueMembers == UNION {Range(channelQueue[q]) : q \in DOMAIN channelQueue}

\* C19: a successful initialize call has called initialize exactly once on
\* every element of the assembled list and on every member of a retained queue.
C19_EachInitializedOnce ==
    (op = "initialize" /\ err = NoError) =>
        \A e \in Range(extensions) \cup QueueMembers : TimesInitialized(trace, e) = 1

\* C17: a pump tick on an initialized Core leaves none of the messages it
\* passed to track in the queue, and has passed none of them to track that an
\* earlier tick had passed already, also when one of its track calls fails and
\* when messages are logged during them.
C17_ConvertedAtMostOnce ==
    (op = "tick" /\ isInitialized) =>
        /\ Range(converted) \cap Range(loggerQueue) = {}
        /\ \A i \in DOMAIN converted : passed[converted[i]] <= 1

\* C18: a pump tick, and so every track call the pump makes, happens only on
\* a Core whose initialize has completed successfully.
C18_NoTickBeforeInitialized == op = "tick" => isInitialized

\* C20: every message a pump tick on an initialized Core removes from the
\* queue, one logged during the tick included, has been passed to track by
\* that tick or an earlier one.
C20_NoMessageLost ==
    [][(isInitialized /\ op' = "tick") =>
          \A m \in removed' \ removed : passed'[m] >= 1]_vars

====
